---------------------------- MODULE Spec2Model ----------------------------
(***************************************************************************)
(* Model of the two port scanners of NetworkPort_check.                    *)
(*                                                                         *)
(*   fast_scanner.py : a main thread that starts daemon worker threads     *)
(*                     (threader), seeds a Queue with the port range and   *)
(*                     waits in queue.join; each worker loops over         *)
(*                     queue.get / port_scan / queue.task_done.            *)
(*   port_scanner.py : scan_target, the sequential scanner.                *)
(*                                                                         *)
(*   checker.py, utils.py : PasswordChecker.check_password, the password   *)
(*                     strength scorer.                                    *)
(*                                                                         *)
(* Specification Spec is the threaded scanner, SpecSeq the sequential one, *)
(* SpecPw one call of check_password.                                      *)
(***************************************************************************)
EXTENDS Integers, Sequences, FiniteSets

\* Bounds of the model: the code starts 100 workers over ports 1..1024.
NumWorkers == 2
MaxPort == 3

Workers == 1..NumWorkers
Ports == 1..MaxPort

VARIABLES
    \* ---- fast_scanner.py ----
    resolvable,      \* whether the string read into `target` names a reachable address
    mainpc,          \* position of the main thread
    started,         \* number of threader threads started so far
    nextPort,        \* loop variable of the seeding loop (next port to put)
    queue,           \* the Queue's contents
    unfinished,      \* the Queue's count of unfinished tasks
    pc,              \* position of each worker thread
    task,            \* each worker's local `worker` (the port it dequeued)
    s,               \* each worker's local socket `s`: its timeout, or unset/closed
    defaulttimeout,  \* the process-wide default socket timeout
    print_lock,      \* 0 when free, else the worker holding it
    printed,         \* the "Port p: OPEN" lines written so far
    open_ports,      \* the shared result list
    \* ---- observations of the run (written by the actions, never read by them) ----
    probes,          \* per port, the number of port_scan calls made for it
    outcome,         \* per port, what its connect attempt did
    leaked,          \* sockets still open when the probe that made them returned
    cancelled,       \* a user interrupt was raised in the main thread
    afterCancel,     \* per worker, ports it started probing after the interrupt
    \* ---- port_scanner.py ----
    q_resolvable,    \* whether gethostbyname succeeds for the target
    q_pc,            \* position inside scan_target
    q_port,          \* loop variable `port`
    q_sock,          \* the local `sock`: its timeout, or unset/closed
    q_printed,       \* the OPEN lines written
    q_probes,        \* per port, the number of connect_ex calls
    q_leaked,        \* sockets still open when the program left the loop
    q_interrupted,   \* a user interrupt was raised
    \* ---- password_checker: one call of PasswordChecker.check_password ----
    p_password,      \* the argument, a sequence of one-character strings
    p_pc,            \* "call" before the call, "returned" after it
    p_score,         \* report["score"]
    p_strength       \* report["strength"]

tvars == <<resolvable, mainpc, started, nextPort, queue, unfinished, pc, task, s,
           defaulttimeout, print_lock, printed, open_ports, probes, outcome,
           leaked, cancelled, afterCancel>>
svars == <<q_resolvable, q_pc, q_port, q_sock, q_printed, q_probes, q_leaked,
           q_interrupted>>
pvars == <<p_password, p_pc, p_score, p_strength>>
vars == <<tvars, svars, pvars>>

Range(f) == {f[i] : i \in DOMAIN f}

IsOpen(sock) == sock \in {"None", "0.5"}

-----------------------------------------------------------------------------
(* fast_scanner.py: module state after import, before __main__ runs.        *)

InitThreaded ==
    /\ resolvable \in BOOLEAN
    /\ mainpc = "spawn"
    /\ started = 0
    /\ nextPort = 1
    /\ queue = <<>>
    /\ unfinished = 0
    /\ pc = [w \in Workers |-> "get"]
    /\ task = [w \in Workers |-> 0]
    /\ s = [w \in Workers |-> "unset"]
    /\ defaulttimeout = "None"
    /\ print_lock = 0
    /\ printed = <<>>
    /\ open_ports = <<>>
    /\ probes = [p \in Ports |-> 0]
    /\ outcome = [p \in Ports |-> "none"]
    /\ leaked = 0
    /\ cancelled = FALSE
    /\ afterCancel = [w \in Workers |-> 0]

InitSeqIdle ==
    /\ q_resolvable = TRUE
    /\ q_pc = "unused"
    /\ q_port = 1
    /\ q_sock = "unset"
    /\ q_printed = <<>>
    /\ q_probes = [p \in Ports |-> 0]
    /\ q_leaked = 0
    /\ q_interrupted = FALSE

InitPwIdle ==
    /\ p_password = <<>>
    /\ p_pc = "unused"
    /\ p_score = 0
    /\ p_strength = ""

Init == InitThreaded /\ InitSeqIdle /\ InitPwIdle

\* A worker thread runs once the main thread has started it and until the
\* process exits (the threads are daemon threads).
Running(w) == w <= started /\ mainpc # "exited"

-----------------------------------------------------------------------------
(* The main thread of fast_scanner.py.                                     *)

\* The thread start loop ends when range(100) is exhausted.
PoolStartedMutant(n) == n >= 1
PoolStarted(n) == n = NumWorkers

\* for x in range(100): t = Thread(target=threader); t.daemon = True; t.start()
StartThread ==
    /\ mainpc = "spawn"
    /\ started' = started + 1
    /\ mainpc' = IF PoolStarted(started + 1) THEN "seed" ELSE "spawn"
    /\ UNCHANGED <<resolvable, nextPort, queue, unfinished, pc, task, s,
                   defaulttimeout, print_lock, printed, open_ports, probes,
                   outcome, leaked, cancelled, afterCancel>>
    /\ UNCHANGED <<svars, pvars>>

\* for worker in range(1, 1025): queue.put(worker)
Put ==
    /\ mainpc = "seed"
    /\ queue' = Append(queue, nextPort)
    /\ unfinished' = unfinished + 1
    /\ nextPort' = nextPort + 1
    /\ mainpc' = IF nextPort = MaxPort THEN "join" ELSE "seed"
    /\ UNCHANGED <<resolvable, started, pc, task, s, defaulttimeout, print_lock,
                   printed, open_ports, probes, outcome, leaked, cancelled,
                   afterCancel>>
    /\ UNCHANGED <<svars, pvars>>

\* Queue.join returns when the count of unfinished tasks is zero.
JoinMutant == queue = <<>>
JoinReady == unfinished = 0

\* queue.join(); print("Time finished")
Join ==
    /\ mainpc = "join"
    /\ JoinReady
    /\ mainpc' = "done"
    /\ UNCHANGED <<resolvable, started, nextPort, queue, unfinished, pc, task, s,
                   defaulttimeout, print_lock, printed, open_ports, probes,
                   outcome, leaked, cancelled, afterCancel>>
    /\ UNCHANGED <<svars, pvars>>

\* A user interrupt: KeyboardInterrupt is raised in the main thread, which has
\* no handler for it, so the main thread ends with a traceback and the
\* interpreter starts to shut down. The daemon threads keep running until the
\* process is gone; no statement of the program orders that moment against
\* their steps, so a run may stop after any of them.
Interrupt ==
    /\ mainpc \in {"seed", "join"}
    /\ mainpc' = "interrupted"
    /\ cancelled' = TRUE
    /\ UNCHANGED <<resolvable, started, nextPort, queue, unfinished, pc, task, s,
                   defaulttimeout, print_lock, printed, open_ports, probes,
                   outcome, leaked, afterCancel>>
    /\ UNCHANGED <<svars, pvars>>

\* The end of the script after queue.join returned: the interpreter shuts
\* down and the daemon threads, all blocked in queue.get, stop there.
Exit ==
    /\ mainpc = "done"
    /\ mainpc' = "exited"
    /\ UNCHANGED <<resolvable, started, nextPort, queue, unfinished, pc, task, s,
                   defaulttimeout, print_lock, printed, open_ports, probes,
                   outcome, leaked, cancelled, afterCancel>>
    /\ UNCHANGED <<svars, pvars>>

-----------------------------------------------------------------------------
(* threader and port_scan, run by each worker thread.                      *)

\* Queue.get removes the head of the queue.
DequeueMutant(q) == q
Dequeue(q) == Tail(q)

\* worker = queue.get(); port_scan(worker): blocks while the queue is empty.
Get(w) ==
    /\ Running(w)
    /\ pc[w] = "get"
    /\ queue # <<>>
    /\ task' = [task EXCEPT ![w] = Head(queue)]
    /\ queue' = Dequeue(queue)
    /\ probes' = [probes EXCEPT ![Head(queue)] = @ + 1]
    /\ afterCancel' = [afterCancel EXCEPT ![w] = IF cancelled THEN @ + 1 ELSE @]
    /\ pc' = [pc EXCEPT ![w] = "socket"]
    /\ UNCHANGED <<resolvable, mainpc, started, nextPort, unfinished, s,
                   defaulttimeout, print_lock, printed, open_ports, outcome,
                   leaked, cancelled>>
    /\ UNCHANGED <<svars, pvars>>

\* Where a worker continues after port_scan's `except: pass` swallowed an
\* exception: port_scan returns normally and threader calls task_done.
AfterExceptionMutant == "dead"
AfterExceptionSkipDone == "get"
AfterException == "task_done"

\* s = socket.socket(AF_INET, SOCK_STREAM): the new socket takes the default
\* timeout that is current now. The call may raise OSError (no descriptors).
Socket(w) ==
    /\ Running(w)
    /\ pc[w] = "socket"
    /\ \/ /\ s' = [s EXCEPT ![w] = defaulttimeout]
          /\ pc' = [pc EXCEPT ![w] = "setdefaulttimeout"]
          /\ UNCHANGED outcome
       \/ /\ outcome' = [outcome EXCEPT ![task[w]] = "socket_error"]
          /\ pc' = [pc EXCEPT ![w] = AfterException]
          /\ UNCHANGED s
    /\ UNCHANGED <<resolvable, mainpc, started, nextPort, queue, unfinished, task,
                   defaulttimeout, print_lock, printed, open_ports, probes,
                   leaked, cancelled, afterCancel>>
    /\ UNCHANGED <<svars, pvars>>

\* socket.setdefaulttimeout(0.5)
SetDefaultTimeout(w) ==
    /\ Running(w)
    /\ pc[w] = "setdefaulttimeout"
    /\ defaulttimeout' = "0.5"
    /\ pc' = [pc EXCEPT ![w] = "connect"]
    /\ UNCHANGED <<resolvable, mainpc, started, nextPort, queue, unfinished, task,
                   s, print_lock, printed, open_ports, probes, outcome, leaked,
                   cancelled, afterCancel>>
    /\ UNCHANGED <<svars, pvars>>

\* result = s.connect_ex((target, port)); if result == 0: ...
\* connect_ex returns 0 or an errno for what the C-level connect does, and
\* raises socket.gaierror when the target string cannot be resolved.
Connect(w) ==
    /\ Running(w)
    /\ pc[w] = "connect"
    /\ IF resolvable
       THEN \E result \in {0, 111} :
              /\ outcome' = [outcome EXCEPT ![task[w]] =
                                IF result = 0 THEN "open" ELSE "closed"]
              /\ pc' = [pc EXCEPT ![w] = IF result = 0 THEN "acquire" ELSE "close"]
       ELSE /\ outcome' = [outcome EXCEPT ![task[w]] = "connect_error"]
            /\ pc' = [pc EXCEPT ![w] = AfterException]
    /\ UNCHANGED <<resolvable, mainpc, started, nextPort, queue, unfinished, task,
                   s, defaulttimeout, print_lock, printed, open_ports, probes,
                   leaked, cancelled, afterCancel>>
    /\ UNCHANGED <<svars, pvars>>

\* with print_lock: (exit) the value of the lock after worker w left the
\* block, normally or by an exception.
ReleasedMutant(w) == w
Released(w) == 0

\* with print_lock: (entry) blocks until the lock is free.
LockFreeMutant == TRUE
LockFree == print_lock = 0

Acquire(w) ==
    /\ Running(w)
    /\ pc[w] = "acquire"
    /\ LockFree
    /\ print_lock' = w
    /\ pc' = [pc EXCEPT ![w] = "print"]
    /\ UNCHANGED <<resolvable, mainpc, started, nextPort, queue, unfinished, task,
                   s, defaulttimeout, printed, open_ports, probes, outcome,
                   leaked, cancelled, afterCancel>>
    /\ UNCHANGED <<svars, pvars>>

\* print(f"Port {port}: OPEN"): writes the line, or raises OSError when the
\* standard output cannot be written; the with statement then releases the
\* lock and the exception reaches `except: pass`.
PrintOpen(w) ==
    /\ Running(w)
    /\ pc[w] = "print"
    /\ \/ /\ printed' = Append(printed, task[w])
          /\ pc' = [pc EXCEPT ![w] = "append"]
          /\ UNCHANGED print_lock
       \/ /\ print_lock' = Released(w)
          /\ pc' = [pc EXCEPT ![w] = AfterException]
          /\ UNCHANGED printed
    /\ UNCHANGED <<resolvable, mainpc, started, nextPort, queue, unfinished, task,
                   s, defaulttimeout, open_ports, probes, outcome, leaked,
                   cancelled, afterCancel>>
    /\ UNCHANGED <<svars, pvars>>

\* list.append
AppendPortMutant(l, p) == <<p>>
AppendPort(l, p) == Append(l, p)

\* open_ports.append(port), then the with statement releases the lock.
AppendOpen(w) ==
    /\ Running(w)
    /\ pc[w] = "append"
    /\ open_ports' = AppendPort(open_ports, task[w])
    /\ print_lock' = Released(w)
    /\ pc' = [pc EXCEPT ![w] = "close"]
    /\ UNCHANGED <<resolvable, mainpc, started, nextPort, queue, unfinished, task,
                   s, defaulttimeout, printed, probes, outcome, leaked,
                   cancelled, afterCancel>>
    /\ UNCHANGED <<svars, pvars>>

\* s.close(), and port_scan returns.
Close(w) ==
    /\ Running(w)
    /\ pc[w] = "close"
    /\ s' = [s EXCEPT ![w] = "closed"]
    /\ pc' = [pc EXCEPT ![w] = "task_done"]
    /\ UNCHANGED <<resolvable, mainpc, started, nextPort, queue, unfinished, task,
                   defaulttimeout, print_lock, printed, open_ports, probes,
                   outcome, leaked, cancelled, afterCancel>>
    /\ UNCHANGED <<svars, pvars>>

\* queue.task_done(), back to the top of `while True`. The locals of the
\* port_scan call that returned are gone (a socket it left open is counted),
\* and `worker` is dead until the next queue.get assigns it.
TaskDone(w) ==
    /\ Running(w)
    /\ pc[w] = "task_done"
    /\ unfinished' = unfinished - 1
    /\ leaked' = IF IsOpen(s[w]) THEN leaked + 1 ELSE leaked
    /\ s' = [s EXCEPT ![w] = "unset"]
    /\ task' = [task EXCEPT ![w] = 0]
    /\ pc' = [pc EXCEPT ![w] = "get"]
    /\ UNCHANGED <<resolvable, mainpc, started, nextPort, queue,
                   defaulttimeout, print_lock, printed, open_ports, probes,
                   outcome, cancelled, afterCancel>>
    /\ UNCHANGED <<svars, pvars>>

port_scan(w) ==
    \/ Socket(w)
    \/ SetDefaultTimeout(w)
    \/ Connect(w)
    \/ Acquire(w)
    \/ PrintOpen(w)
    \/ AppendOpen(w)
    \/ Close(w)

threader(w) ==
    \/ Get(w)
    \/ port_scan(w)
    \/ TaskDone(w)

Main ==
    \/ StartThread
    \/ Put
    \/ Join
    \/ Interrupt
    \/ Exit

Next == Main \/ \E w \in Workers : threader(w)

Spec == Init /\ [][Next]_vars

-----------------------------------------------------------------------------
(* port_scanner.py: scan_target, the sequential scanner.                   *)

InitThreadedIdle ==
    /\ resolvable = TRUE
    /\ mainpc = "unused"
    /\ started = 0
    /\ nextPort = 1
    /\ queue = <<>>
    /\ unfinished = 0
    /\ pc = [w \in Workers |-> "get"]
    /\ task = [w \in Workers |-> 0]
    /\ s = [w \in Workers |-> "unset"]
    /\ defaulttimeout = "None"
    /\ print_lock = 0
    /\ printed = <<>>
    /\ open_ports = <<>>
    /\ probes = [p \in Ports |-> 0]
    /\ outcome = [p \in Ports |-> "none"]
    /\ leaked = 0
    /\ cancelled = FALSE
    /\ afterCancel = [w \in Workers |-> 0]

\* The state on entry to scan_target(target).
InitSeq ==
    /\ InitThreadedIdle
    /\ InitPwIdle
    /\ q_resolvable \in BOOLEAN
    /\ q_pc = "resolve"
    /\ q_port = 1
    /\ q_sock = "unset"
    /\ q_printed = <<>>
    /\ q_probes = [p \in Ports |-> 0]
    /\ q_leaked = 0
    /\ q_interrupted = FALSE

\* Where scan_target goes when gethostbyname raises socket.gaierror:
\* print("Hostname could not be resolved."); sys.exit()
SeqAfterGaierrorMutant == "socket"
SeqAfterGaierror == "exit_unresolved"

\* target_ip = socket.gethostbyname(target)
SeqResolve ==
    /\ q_pc = "resolve"
    /\ q_pc' = IF q_resolvable THEN "socket" ELSE SeqAfterGaierror
    /\ UNCHANGED <<q_resolvable, q_port, q_sock, q_printed, q_probes, q_leaked,
                   q_interrupted>>
    /\ UNCHANGED <<tvars, pvars>>

\* The handlers `except KeyboardInterrupt` and `except socket.error` both end
\* in sys.exit(): the local `sock` is not closed by them.
SeqLeave(where) ==
    /\ q_pc' = where
    /\ q_leaked' = IF IsOpen(q_sock) THEN q_leaked + 1 ELSE q_leaked

\* sock = socket.socket(AF_INET, SOCK_STREAM); may raise OSError (socket.error).
SeqSocket ==
    /\ q_pc = "socket"
    /\ \/ /\ q_sock' = "None"
          /\ q_pc' = "settimeout"
          /\ UNCHANGED q_leaked
       \/ /\ SeqLeave("exit_error")
          /\ UNCHANGED q_sock
    /\ UNCHANGED <<q_resolvable, q_port, q_printed, q_probes, q_interrupted>>
    /\ UNCHANGED <<tvars, pvars>>

\* sock.settimeout(0.5)
SeqSetTimeout ==
    /\ q_pc = "settimeout"
    /\ q_sock' = "0.5"
    /\ q_pc' = "connect"
    /\ UNCHANGED <<q_resolvable, q_port, q_printed, q_probes, q_leaked,
                   q_interrupted>>
    /\ UNCHANGED <<tvars, pvars>>

\* Where scan_target goes when connect_ex returned an error code: the if is
\* skipped and the socket is closed.
SeqAfterConnectErrorMutant == "exit_error"
SeqAfterConnectError == "close"

\* result = sock.connect_ex((target_ip, port)); if result == 0: ...
SeqConnect ==
    /\ q_pc = "connect"
    /\ q_probes' = [q_probes EXCEPT ![q_port] = @ + 1]
    /\ \E result \in {0, 111} :
          q_pc' = IF result = 0 THEN "print" ELSE SeqAfterConnectError
    /\ UNCHANGED <<q_resolvable, q_port, q_sock, q_printed, q_leaked,
                   q_interrupted>>
    /\ UNCHANGED <<tvars, pvars>>

\* print(f"Port {port}: OPEN"); an OSError from the write is a socket.error.
SeqPrint ==
    /\ q_pc = "print"
    /\ \/ /\ q_printed' = Append(q_printed, q_port)
          /\ q_pc' = "close"
          /\ UNCHANGED q_leaked
       \/ /\ SeqLeave("exit_error")
          /\ UNCHANGED q_printed
    /\ UNCHANGED <<q_resolvable, q_port, q_sock, q_probes, q_interrupted>>
    /\ UNCHANGED <<tvars, pvars>>

\* sock.close(), and the for loop takes the next port or ends.
SeqClose ==
    /\ q_pc = "close"
    /\ q_sock' = "closed"
    /\ IF q_port = MaxPort
       THEN q_pc' = "returned" /\ UNCHANGED q_port
       ELSE q_pc' = "socket" /\ q_port' = q_port + 1
    /\ UNCHANGED <<q_resolvable, q_printed, q_probes, q_leaked, q_interrupted>>
    /\ UNCHANGED <<tvars, pvars>>

\* A user interrupt inside the try block: except KeyboardInterrupt:
\* print("Exiting Program."); sys.exit()
SeqInterrupt ==
    /\ q_pc \in {"socket", "settimeout", "connect", "print", "close"}
    /\ q_interrupted' = TRUE
    /\ SeqLeave("exit_interrupt")
    /\ UNCHANGED <<q_resolvable, q_port, q_sock, q_printed, q_probes>>
    /\ UNCHANGED <<tvars, pvars>>

scan_target ==
    \/ SeqResolve
    \/ SeqSocket
    \/ SeqSetTimeout
    \/ SeqConnect
    \/ SeqPrint
    \/ SeqClose
    \/ SeqInterrupt

SpecSeq == InitSeq /\ [][scan_target]_vars

-----------------------------------------------------------------------------
(* Properties of the threaded scanner (checked under Spec).                *)

\* The main thread has returned from queue.join (and may have exited since).
PastJoin == mainpc \in {"done", "exited"}

NoDuplicates(l) == Cardinality(Range(l)) = Len(l)

InPortScan(w) == pc[w] \notin {"get", "task_done"}

\* C1: every port of the seeded range is dequeued by exactly one worker and
\* probed exactly once: no port is ever handed to port_scan twice, two workers
\* never hold the same port, and once queue.join has returned the number of
\* probes equals the size of the range (every port probed once, none skipped).
C1_EachPortProbedOnce ==
    /\ \A p \in Ports : probes[p] <= 1
    /\ \A v, w \in Workers :
          (v # w /\ pc[v] # "get" /\ pc[w] # "get") => task[v] # task[w]
    /\ PastJoin => \A p \in Ports : probes[p] = 1

\* queue.join has returned: every port was probed, some open, some not.
C1_Witness ==
    /\ mainpc = "done"
    /\ \A p \in Ports : probes[p] = 1
    /\ outcome[1] = "open" /\ outcome[MaxPort] = "closed"

\* C2: the lock-guarded record loses and duplicates nothing: open_ports never
\* holds a port twice, and whenever no worker is inside the critical section
\* open_ports has exactly one entry per reported (printed) port.
C2_NoLostNoDuplicate ==
    /\ NoDuplicates(open_ports)
    /\ print_lock = 0 =>
          /\ Len(open_ports) = Len(printed)
          /\ Range(open_ports) = Range(printed)

\* Two workers have recorded one port each and a worker is about to enter
\* the critical section with a third.
C2_Witness ==
    /\ print_lock = 0
    /\ Len(open_ports) >= 2
    /\ \E w \in Workers : pc[w] = "acquire"

\* C3: queue.join returns only after the queue is drained and every probe has
\* finished: once the main thread is past queue.join every port has been
\* probed, the queue is empty, every worker is back at queue.get, and
\* open_ports is never written again.
C3_JoinAfterAllProbes ==
    /\ [](PastJoin => /\ \A p \in Ports : probes[p] = 1
                      /\ queue = <<>>
                      /\ \A w \in Workers : pc[w] = "get")
    /\ [][PastJoin => (PastJoin' /\ open_ports' = open_ports)]_vars

\* queue.join has returned in a scan that found an open port.
C3_Witness == mainpc = "done" /\ Len(open_ports) >= 1

\* C4: at completion open_ports holds exactly the ports whose connect_ex
\* returned 0, whatever the schedule.
C4_OpenSetIsConnectSuccesses ==
    PastJoin => Range(open_ports) = {p \in Ports : outcome[p] = "open"}

\* C5: an exception inside a probe never ends the worker that ran it: the
\* worker is never dead, a worker whose probe raised goes straight to
\* task_done, and at completion every port has still been probed.
C5_FailureContained ==
    /\ \A w \in Workers : pc[w] # "dead"
    /\ \A w \in Workers :
          (pc[w] # "get" /\ outcome[task[w]] \in {"socket_error", "connect_error"})
             => pc[w] = "task_done"
    /\ PastJoin => \A p \in Ports : probes[p] = 1

\* Every probe of the scan raised, and the scan still completed: with more
\* ports than workers, some worker took another port after a failed probe.
C5_Witness ==
    /\ mainpc = "done"
    /\ MaxPort > NumWorkers
    /\ \A p \in Ports : outcome[p] = "socket_error"

\* C6: every socket a probe opened is closed when the probe returns: no
\* worker comes back from port_scan with its socket open, and no socket was
\* ever left open by a finished probe.
C6_SocketsClosed ==
    /\ leaked = 0
    /\ \A w \in Workers : pc[w] = "task_done" => ~IsOpen(s[w])

\* C7: the socket a worker calls connect_ex on has the 0.5 s timeout.
C7_TimeoutInForce ==
    \A w \in Workers : pc[w] = "connect" => s[w] = "0.5"

\* Seeding is over and the queue is empty: no task is left and none will come.
NoMoreTasks == mainpc \in {"join", "done"} /\ queue = <<>>

\* C8: once no task is left and none will come, a worker at its take is not
\* blocked: it has a step to take (observing the emptiness and terminating).
C8_WorkersNotBlocked ==
    \A w \in Workers :
        (NoMoreTasks /\ Running(w) /\ pc[w] = "get") => ENABLED threader(w)

\* C9: after the user interrupt no worker starts probing more than one
\* additional port.
C9_AtMostOneAfterCancel ==
    \A w \in Workers : afterCancel[w] <= 1

\* C10: for a target that cannot be resolved no worker probes any port and no
\* connect attempt is made.
C10_NoProbeIfUnresolvable ==
    ~resolvable => \A p \in Ports : probes[p] = 0 /\ outcome[p] = "none"

-----------------------------------------------------------------------------
(* The same questions asked of scan_target (checked under SpecSeq).        *)

\* The sequential half of C6: scan_target never leaves a socket open.
Seq_SocketsClosed == q_leaked = 0

\* The sequential half of C9: no connect attempt follows the interrupt.
Seq_NoProbeAfterInterrupt ==
    [][q_interrupted => q_probes' = q_probes]_vars

\* The sequential half of C10: a target that does not resolve is never probed.
Seq_NoProbeIfUnresolvable ==
    ~q_resolvable => (q_pc \in {"resolve", "exit_unresolved"}
                      /\ \A p \in Ports : q_probes[p] = 0)

-----------------------------------------------------------------------------
(* password_checker: PasswordChecker.check_password (checker.py) and       *)
(* is_common_password (utils.py). A password is a sequence of              *)
(* one-character strings. The feedback and recommendation texts and the    *)
(* entropy figure, which do not enter the score, are left out.             *)

\* Bound of the model: a password is made of at most MaxChunks fragments.
MaxChunks == 3

\* The fragments the passwords of the model are made of: one character of
\* each class and one of none, a mixed fragment, sequential and serial
\* patterns, and common passwords (one of them only after lower()).
Fragments ==
    {
      <<"q">>, <<"Z">>, <<"7">>,
      <<"!">>, <<"~">>, <<"X", "k", "9", "#">>,
      <<"a", "b", "c">>, <<"1", "2", "3">>, <<"1", "2", "3", "4", "5", "6", "7">>,
      <<"1", "1", "1", "1", "1", "1", "1">>, <<"p", "a", "s", "s", "w", "o", "r", "d">>, <<"P", "a", "s", "s">>
    }

RECURSIVE Concats(_)
Concats(n) ==
    IF n = 0 THEN {<<>>}
    ELSE LET shorter == Concats(n - 1)
         IN  shorter \cup {x \o f : x \in shorter, f \in Fragments}

Passwords == Concats(MaxChunks)

\* self.max_score
max_score == 100

LowerSeq == <<"a", "b", "c", "d", "e", "f", "g", "h", "i", "j", "k", "l", "m",
             "n", "o", "p", "q", "r", "s", "t", "u", "v", "w", "x", "y", "z">>
UpperSeq == <<"A", "B", "C", "D", "E", "F", "G", "H", "I", "J", "K", "L", "M",
             "N", "O", "P", "Q", "R", "S", "T", "U", "V", "W", "X", "Y", "Z">>
DigitSeq == <<"1", "2", "3", "4", "5", "6", "7", "8", "9", "0">>

\* str.isupper, str.islower, str.isdigit on one ASCII character
isupper(c) == c \in Range(UpperSeq)
islower(c) == c \in Range(LowerSeq)
isdigit(c) == c \in Range(DigitSeq)

\* str.lower
LowerChar(c) ==
    IF isupper(c) THEN LowerSeq[CHOOSE i \in DOMAIN UpperSeq : UpperSeq[i] = c]
    ELSE c
lower(password) == [i \in DOMAIN password |-> LowerChar(password[i])]

\* pattern in password
Contains(password, pattern) ==
    \E i \in 1..(Len(password) - Len(pattern) + 1) :
        SubSeq(password, i, i + Len(pattern) - 1) = pattern

\* password.count(char)
Count(password, c) == Cardinality({i \in DOMAIN password : password[i] = c})

Max(a, b) == IF a >= b THEN a ELSE b
Min(a, b) == IF a <= b THEN a ELSE b

\* utils.COMMON_PASSWORDS
COMMON_PASSWORDS ==
    {
      <<"p", "a", "s", "s", "w", "o", "r", "d">>, <<"1", "2", "3", "4", "5", "6">>,
      <<"1", "2", "3", "4", "5", "6", "7", "8">>, <<"q", "w", "e", "r", "t", "y">>,
      <<"a", "b", "c", "1", "2", "3">>, <<"m", "o", "n", "k", "e", "y">>,
      <<"1", "2", "3", "4", "5", "6", "7">>, <<"l", "e", "t", "m", "e", "i", "n">>,
      <<"t", "r", "u", "s", "t", "m", "e">>, <<"d", "r", "a", "g", "o", "n">>,
      <<"b", "a", "s", "e", "b", "a", "l", "l">>, <<"1", "1", "1", "1", "1", "1">>,
      <<"i", "l", "o", "v", "e", "y", "o", "u">>, <<"m", "a", "s", "t", "e", "r">>,
      <<"s", "u", "n", "s", "h", "i", "n", "e">>, <<"a", "s", "h", "l", "e", "y">>,
      <<"b", "a", "i", "l", "e", "y">>, <<"p", "a", "s", "s", "w", "0", "r", "d">>,
      <<"s", "h", "a", "d", "o", "w">>, <<"1", "2", "3", "1", "2", "3">>,
      <<"6", "5", "4", "3", "2", "1">>, <<"s", "u", "p", "e", "r", "m", "a", "n">>,
      <<"q", "a", "z", "w", "s", "x">>, <<"m", "i", "c", "h", "a", "e", "l">>,
      <<"f", "o", "o", "t", "b", "a", "l", "l">>, <<"p", "r", "i", "n", "c", "e", "s", "s">>,
      <<"w", "e", "l", "c", "o", "m", "e">>, <<"j", "e", "s", "u", "s">>,
      <<"n", "i", "n", "j", "a">>, <<"m", "u", "s", "t", "a", "c", "h", "e">>,
      <<"p", "a", "s", "s", "w", "o", "r", "d", "1", "2", "3">>, <<"a", "d", "m", "i", "n">>,
      <<"r", "o", "o", "t">>, <<"t", "o", "o", "r">>,
      <<"p", "a", "s", "s">>, <<"t", "e", "s", "t">>
    }

is_common_password(password) == lower(password) \in COMMON_PASSWORDS

\* _check_length: the score it returns
check_length_mutant(password) ==
    LET length == Len(password)
    IN  IF length < 8 THEN 0
        ELSE IF length < 12 THEN 0
        ELSE IF length < 16 THEN 10
        ELSE 20
check_length(password) ==
    LET length == Len(password)
    IN  IF length < 8 THEN -20
        ELSE IF length < 12 THEN 0
        ELSE IF length < 16 THEN 10
        ELSE 20

check_uppercase(password) ==
    IF \E i \in DOMAIN password : isupper(password[i]) THEN 10 ELSE 0

check_lowercase(password) ==
    IF \E i \in DOMAIN password : islower(password[i]) THEN 10 ELSE 0

check_numbers(password) ==
    IF \E i \in DOMAIN password : isdigit(password[i]) THEN 10 ELSE 0

special_chars ==
    {"!", "@", "#", "$", "%", "^", "&", "*", "(", ")", "_", "+", "-",
     "=", "[", "]", "{", "}", "|", ";", ":", ",", ".", "<", ">", "?"}

check_special_chars(password) ==
    IF \E i \in DOMAIN password : password[i] \in special_chars THEN 15 ELSE 0

\* 'abc' ... 'xyz' and '123' ... '890'
sequential_patterns ==
    {SubSeq(LowerSeq, i, i + 2) : i \in 1..24} \cup
    {SubSeq(DigitSeq, i, i + 2) : i \in 1..8}

check_sequential_patterns(password) ==
    IF \E pattern \in sequential_patterns : Contains(lower(password), pattern)
    THEN 0 ELSE 5

numeric_patterns ==
    {
      <<"0", "1", "2", "3", "4", "5", "6", "7", "8", "9">>, <<"9", "8", "7", "6", "5", "4", "3", "2", "1", "0">>,
      <<"1", "2", "3", "4", "5", "6", "7", "8", "9", "0">>, <<"0", "9", "8", "7", "6", "5", "4", "3", "2", "1">>,
      <<"0", "1", "2", "3", "4", "5", "6", "7">>, <<"8", "7", "6", "5", "4", "3", "2", "1">>,
      <<"1", "2", "3", "4", "5", "6", "7">>, <<"7", "6", "5", "4", "3", "2", "1">>
    }

phone_pattern_checks ==
    {[i \in 1..7 |-> d] : d \in Range(DigitSeq)}

check_numeric_sequences(password) ==
    IF \E pattern \in numeric_patterns \cup phone_pattern_checks :
          Contains(password, pattern)
    THEN 0 ELSE 5

check_repeated_chars(password) ==
    LET max_repeat ==
          IF password = <<>> THEN 0
          ELSE CHOOSE m \in {Count(password, c) : c \in Range(password)} :
                  \A c \in Range(password) : Count(password, c) <= m
    IN  IF max_repeat > Len(password) \div 2 THEN 0 ELSE 5

\* The sum check_password has accumulated when it reaches "Normalize score".
RawScore(password) ==
    check_length(password)
    + check_uppercase(password) + check_lowercase(password)
    + check_numbers(password) + check_special_chars(password)
    + check_sequential_patterns(password)
    + check_numeric_sequences(password)
    + check_repeated_chars(password)
    + (IF is_common_password(password) THEN -30 ELSE 0)

\* score = max(0, min(self.max_score, score))
NormalizeMutant(score) == Min(max_score, score)
Normalize(score) == Max(0, Min(max_score, score))

determine_strength_level(score) ==
    IF score < 31 THEN "Weak"
    ELSE IF score < 51 THEN "Fair"
    ELSE IF score < 71 THEN "Good"
    ELSE IF score < 86 THEN "Strong"
    ELSE "Very Strong"

InitPw ==
    /\ InitThreadedIdle
    /\ InitSeqIdle
    /\ p_password \in Passwords
    /\ p_pc = "call"
    /\ p_score = 0
    /\ p_strength = ""

\* report = checker.check_password(password)
check_password ==
    /\ p_pc = "call"
    /\ IF p_password = <<>>
       THEN /\ p_score' = 0
            /\ p_strength' = "Weak"
       ELSE /\ p_score' = Normalize(RawScore(p_password))
            /\ p_strength' = determine_strength_level(Normalize(RawScore(p_password)))
    /\ p_pc' = "returned"
    /\ UNCHANGED p_password
    /\ UNCHANGED <<tvars, svars>>

SpecPw == InitPw /\ [][check_password]_vars

\* C12: the score check_password returns is an integer between 0 and 100.
C12_ScoreInRange ==
    p_pc = "returned" => (p_score \in Int /\ 0 <= p_score /\ p_score <= max_score)

\* A password whose accumulated score is negative was scored 0.
C12_Witness ==
    /\ p_pc = "returned"
    /\ RawScore(p_password) < 0
    /\ p_score = 0

\* C13: a non-empty password of fewer than 8 characters scores below 50, and
\* the empty password scores 0 with strength Weak.
C13_ShortBelow50 ==
    p_pc = "returned" =>
        /\ (p_password # <<>> /\ Len(p_password) < 8) => p_score < 50
        /\ p_password = <<>> => (p_score = 0 /\ p_strength = "Weak")

\* A 4-character password with every character class and no pattern: the
\* highest score a short password gets.
C13_Witness ==
    /\ p_pc = "returned"
    /\ p_password = <<"X", "k", "9", "#">>
    /\ p_score = 40

-----------------------------------------------------------------------------
(* Further properties of the threaded scanner (Spec and FairSpec).         *)

InCriticalSection(w) == pc[w] \in {"print", "append"}

\* C14: no worker holds print_lock during network I/O: the holder of the lock
\* is between the entry and the exit of the with block, a worker inside
\* connect_ex does not hold it, and nobody holds it unless some worker is
\* inside the block.
C14_NoLockDuringConnect ==
    /\ \A w \in Workers : print_lock = w => InCriticalSection(w)
    /\ \A w \in Workers : pc[w] = "connect" => print_lock # w
    /\ print_lock # 0 => \E w \in Workers : InCriticalSection(w)

\* One worker is inside connect_ex while another one holds the lock.
C14_Witness ==
    \E v, w \in Workers : v # w /\ pc[w] = "connect" /\ print_lock = v

\* C15 as stated: at most one worker is inside the critical section and the
\* printed OPEN lines equal open_ports at every moment.
C15_RecordAtomic ==
    /\ Cardinality({w \in Workers : InCriticalSection(w)}) <= 1
    /\ printed = open_ports

\* C15 as amended: at most one worker is inside the critical section; the
\* printed OPEN lines equal open_ports whenever the lock is free, and while it
\* is held they are open_ports, or open_ports followed by the holder's port.
C15_RecordAtomicAmended ==
    /\ Cardinality({w \in Workers : InCriticalSection(w)}) <= 1
    /\ print_lock = 0 => printed = open_ports
    /\ print_lock # 0 =>
          printed \in {open_ports, Append(open_ports, task[print_lock])}

\* A worker has printed its line and not yet appended, after an earlier
\* record, while another worker waits for the lock.
C15_Witness ==
    /\ print_lock # 0
    /\ Len(open_ports) >= 1
    /\ printed = Append(open_ports, task[print_lock])
    /\ \E w \in Workers : pc[w] = "acquire"

\* The scheduling the scan relies on: the main thread and every started
\* worker keep being scheduled, and every call a thread is in returns
\* (connect_ex returns, by success, refusal or timeout). A user interrupt is
\* not owed to anyone.
Fairness ==
    /\ WF_vars(StartThread)
    /\ WF_vars(Put)
    /\ WF_vars(Join)
    /\ WF_vars(Exit)
    /\ \A w \in Workers : WF_vars(threader(w))

FairSpec == Spec /\ Fairness

\* C16: a scan that is not interrupted reaches its completion point:
\* queue.join eventually returns. The count of unfinished tasks is never
\* negative and is always the number of ports still queued plus the ports
\* dequeued and not yet marked done (one task_done per dequeued port, also
\* when the probe raised).
C16_JoinReturns ==
    /\ [](unfinished >= 0)
    /\ [](unfinished = Len(queue) + Cardinality({w \in Workers : pc[w] # "get"}))
    /\ <>(PastJoin \/ cancelled)

\* queue.join has returned in a scan where one probe raised and another
\* found its port open.
C16_Witness ==
    /\ mainpc = "done"
    /\ \E p \in Ports : outcome[p] = "socket_error"
    /\ \E p \in Ports : outcome[p] = "open"

\* C17: a step of port_scan writes none of the state shared between the
\* workers: the target, the queue, the process-wide default timeout and the
\* result list.
C17_ProbeWritesNoSharedState ==
    [][(\E w \in Workers : port_scan(w)) =>
          UNCHANGED <<resolvable, queue, defaulttimeout, open_ports>>]_vars

-----------------------------------------------------------------------------
(* Further properties of scan_target (SpecSeq).                            *)

\* The ports probed so far are 1..n for some n, each probed once.
SeqAscendingOnce ==
    \A p \in Ports :
        /\ q_probes[p] <= 1
        /\ q_probes[p] = 1 => \A r \in 1..p : q_probes[r] = 1

=============================================================================
